---- MODULE Spec2Model ----
(***************************************************************************)
(* Invisible cloak (OpenCV): the colour registry, the mask builder, the    *)
(* median background estimator, the compositor and the two orchestrators   *)
(* (invisible_cloak.py with a window, invisible_cloak_nogui.py writing      *)
(* files).  Images are records [h, w, ch, px]: px maps <<row, col>> to an   *)
(* 8-bit value (ch = 1) or to a <<b, g, r>> / <<h, s, v>> triple (ch = 3).  *)
(***************************************************************************)
EXTENDS Integers, Sequences, FiniteSets, TLC

\* ---------------------------------------------------------------- bounds
\* Width and height of the synthetic HSV images given to build_mask alone.
MaskW == 7
MaskH == 6
\* Width and height of the frames the camera yields to the orchestrators.
FrameW == 5
FrameH == 1
\* Largest --bg-frames and --demo-frames tried, and the most frames one run reads.
MaxBgFrames == 2
MaxDemoFrames == 2
MaxReads == 6
\* Width of the images given to the compositor alone, and the most frames the
\* background estimator is given alone.
ComposeW == 2
MaxMedianFrames == 3

\* ------------------------------------------------------- program constants
U8Max == 255
HueMax == 179
HsvShift == 12
KernelSize == 3
OpenIterations == 2
DilateIterations == 1

\* ------------------------------------------------------------ images
Pos(h, w) == (1..h) \X (1..w)

\* the value of f, fully evaluated
Materialize(f) == CHOOSE g \in {f} : g = f

Img(h, w, ch, f) == [h |-> h, w |-> w, ch |-> ch, px |-> Materialize(f)]

SameSize(a, b) == a.h = b.h /\ a.w = b.w

NoImage == [none |-> TRUE]

CvError == [err |-> "cv2.error"]

IsImage(x) == DOMAIN x = {"h", "w", "ch", "px"}

MinOf(S) == CHOOSE x \in S : \A y \in S : x <= y

MaxOf(S) == CHOOSE x \in S : \A y \in S : x >= y

\* ------------------------------------------------------------ 8-bit logic
RECURSIVE BitAnd(_, _)
BitAnd(a, b) ==
    IF a = 0 \/ b = 0 THEN 0
    ELSE (IF a % 2 = 1 /\ b % 2 = 1 THEN 1 ELSE 0) + 2 * BitAnd(a \div 2, b \div 2)

RECURSIVE BitOr(_, _)
BitOr(a, b) ==
    IF a = 0 THEN b
    ELSE IF b = 0 THEN a
    ELSE (IF a % 2 = 1 \/ b % 2 = 1 THEN 1 ELSE 0) + 2 * BitOr(a \div 2, b \div 2)

\* ~x on uint8
BitNot8(a) == U8Max - a

\* saturate_cast<uchar>
Saturate(x) == IF x < 0 THEN 0 ELSE IF x > U8Max THEN U8Max ELSE x

\* ------------------------------------------------------------ registry
Range(lo, hi) == [lo |-> lo, hi |-> hi]

SupportedColors ==
    {"red", "green", "blue", "yellow", "purple", "orange", "cyan", "pink", "white", "black"}

NoGuiColors == {"red", "green"}

RedRanges == << Range(<<0, 120, 70>>, <<10, 255, 255>>),
                Range(<<170, 120, 70>>, <<180, 255, 255>>) >>

\* the else branch of get_hsv_ranges: "defaulting to red"
DefaultRanges ==
    << Range(<<0, 120, 70>>, <<10, 255, 255>>), Range(<<170, 120, 70>>, <<180, 255, 255>>) >>

\* names that are not among the ten
UnknownColors == {"magenta", "RED"}

\* a registry whose default is green, as in invisible_cloak_nogui.py
GetHsvRangesGreenDefault(c) ==
    IF c = "red" THEN RedRanges
    ELSE << Range(<<35, 80, 40>>, <<85, 255, 255>>) >>

\* a registry that forgot red's second pair
GetHsvRangesBad(c) ==
    IF c = "red" THEN << Range(<<0, 120, 70>>, <<10, 255, 255>>) >>
    ELSE << Range(<<35, 80, 40>>, <<85, 255, 255>>) >>

GetHsvRanges(c) ==
    IF c = "red" THEN RedRanges
    ELSE IF c = "green" THEN << Range(<<35, 80, 40>>, <<85, 255, 255>>) >>
    ELSE IF c = "blue" THEN << Range(<<100, 80, 50>>, <<130, 255, 255>>) >>
    ELSE IF c = "yellow" THEN << Range(<<20, 80, 50>>, <<30, 255, 255>>) >>
    ELSE IF c = "purple" THEN << Range(<<140, 80, 50>>, <<170, 255, 255>>) >>
    ELSE IF c = "orange" THEN << Range(<<5, 100, 100>>, <<20, 255, 255>>) >>
    ELSE IF c = "cyan" THEN << Range(<<85, 50, 50>>, <<100, 255, 255>>) >>
    ELSE IF c = "pink" THEN << Range(<<150, 50, 100>>, <<170, 255, 255>>) >>
    ELSE IF c = "white" THEN << Range(<<0, 0, 200>>, <<179, 30, 255>>) >>
    ELSE IF c = "black" THEN << Range(<<0, 0, 0>>, <<179, 255, 50>>) >>
    ELSE DefaultRanges

\* invisible_cloak_nogui.py: red, and the green range for anything else
GetHsvRangesNoGui(c) ==
    IF c = "red" THEN RedRanges
    ELSE << Range(<<35, 80, 40>>, <<85, 255, 255>>) >>

\* ------------------------------------------------------------ mask builder
InRangePx(p, lo, hi) == \A k \in 1..3 : lo[k] <= p[k] /\ p[k] <= hi[k]

\* an in-range test that marks its pixels with 1
InRangeBoolean(hsv, lo, hi) ==
    Img(hsv.h, hsv.w, 1,
        [q \in Pos(hsv.h, hsv.w) |-> IF InRangePx(hsv.px[q], lo, hi) THEN 1 ELSE 0])

\* cv2.inRange: 255 where every channel is inside the inclusive bounds
InRange(hsv, lo, hi) ==
    Img(hsv.h, hsv.w, 1,
        [q \in Pos(hsv.h, hsv.w) |-> IF InRangePx(hsv.px[q], lo, hi) THEN U8Max ELSE 0])

\* pair-masks combined with AND
MaskAnd(a, b) ==
    Img(a.h, a.w, 1, [q \in Pos(a.h, a.w) |-> BitAnd(a.px[q], b.px[q])])

\* mask_total | mask
MaskOr(a, b) ==
    Img(a.h, a.w, 1, [q \in Pos(a.h, a.w) |-> BitOr(a.px[q], b.px[q])])

RECURSIVE RawMaskFrom(_, _, _, _)
RawMaskFrom(hsv, rs, k, acc) ==
    IF k > Len(rs) THEN acc
    ELSE LET m == InRange(hsv, rs[k].lo, rs[k].hi)
         IN  RawMaskFrom(hsv, rs, k + 1, IF acc = NoImage THEN m ELSE MaskOr(acc, m))

\* the loop of build_mask: the OR of the in-range masks of all the bound-pairs
RawMask(hsv, rs) == RawMaskFrom(hsv, rs, 1, NoImage)

\* the pixels a KernelSize x KernelSize element centred on q covers, inside the image
\* (the default border value leaves pixels outside the image out of the min / max)
Window(m, q) ==
    LET r == KernelSize \div 2
        top == IF q[1] - r < 1 THEN 1 ELSE q[1] - r
        bottom == IF q[1] + r > m.h THEN m.h ELSE q[1] + r
        left == IF q[2] - r < 1 THEN 1 ELSE q[2] - r
        right == IF q[2] + r > m.w THEN m.w ELSE q[2] + r
    IN  (top..bottom) \X (left..right)

ErodeBad(m) ==
    Img(m.h, m.w, m.ch, [q \in Pos(m.h, m.w) |-> m.px[q]])

Erode(m) ==
    Img(m.h, m.w, m.ch, [q \in Pos(m.h, m.w) |-> MinOf({ m.px[n] : n \in Window(m, q) })])

DilateBad(m) ==
    Img(m.h, m.w, m.ch, [q \in Pos(m.h, m.w) |-> m.px[q]])

Dilate(m) ==
    Img(m.h, m.w, m.ch, [q \in Pos(m.h, m.w) |-> MaxOf({ m.px[n] : n \in Window(m, q) })])

RECURSIVE ErodeN(_, _)
ErodeN(m, n) == IF n = 0 THEN m ELSE ErodeN(Erode(m), n - 1)

RECURSIVE DilateN(_, _)
DilateN(m, n) == IF n = 0 THEN m ELSE DilateN(Dilate(m), n - 1)

\* cv2.morphologyEx(m, op, kernel, iterations = n)
MorphologyEx(m, op, n) ==
    IF op = "MORPH_OPEN" THEN DilateN(ErodeN(m, n), n)
    ELSE DilateN(m, n)

\* the opening alone, without the dilation that follows it
DenoiseBad(raw) == MorphologyEx(raw, "MORPH_OPEN", OpenIterations)

\* the two morphologyEx calls of build_mask
Denoise(raw) ==
    MorphologyEx(MorphologyEx(raw, "MORPH_OPEN", OpenIterations), "MORPH_DILATE", DilateIterations)

BuildMask(hsv, rs) == Denoise(RawMask(hsv, rs))

\* ------------------------------------------------------------ compositor
BitwiseNotBad(m) == Img(m.h, m.w, m.ch, m.px)

\* cv2.bitwise_not(mask)
BitwiseNot(m) ==
    Img(m.h, m.w, m.ch, [q \in Pos(m.h, m.w) |-> BitNot8(m.px[q])])

\* a bitwise_and that crops to the area source and mask share
BitwiseAndMaskedBad(src, m) ==
    LET h == IF src.h < m.h THEN src.h ELSE m.h
        w == IF src.w < m.w THEN src.w ELSE m.w
    IN  Img(h, w, src.ch, [q \in Pos(h, w) |-> IF m.px[q] # 0 THEN src.px[q] ELSE <<0, 0, 0>>])

\* cv2.bitwise_and(src, src, mask = m): src & src where m is non-zero, 0 in the
\* freshly allocated destination elsewhere; the mask must have the size of src
\* a bitwise_and that takes no notice of its mask
BitwiseAndUnmasked(src, m) ==
    IF ~IsImage(src) \/ ~IsImage(m) THEN CvError
    ELSE IF ~SameSize(src, m) \/ m.ch # 1 THEN CvError
    ELSE Img(src.h, src.w, src.ch, [q \in Pos(src.h, src.w) |-> src.px[q]])

BitwiseAndMasked(src, m) ==
    IF ~IsImage(src) \/ ~IsImage(m) THEN CvError
    ELSE IF ~SameSize(src, m) \/ m.ch # 1 THEN CvError
    ELSE Img(src.h, src.w, src.ch,
             [q \in Pos(src.h, src.w) |->
                 IF m.px[q] # 0
                 THEN << BitAnd(src.px[q][1], src.px[q][1]),
                         BitAnd(src.px[q][2], src.px[q][2]),
                         BitAnd(src.px[q][3], src.px[q][3]) >>
                 ELSE <<0, 0, 0>>])

AddWeightedBad(a, alpha, b, beta, gamma) ==
    IF ~IsImage(a) \/ ~IsImage(b) THEN CvError
    ELSE Img(a.h, a.w, a.ch,
             [q \in Pos(a.h, a.w) |->
                 << Saturate((a.px[q][1] + b.px[q][1]) \div 2),
                    Saturate((a.px[q][2] + b.px[q][2]) \div 2),
                    Saturate((a.px[q][3] + b.px[q][3]) \div 2) >>])

\* cv2.addWeighted(a, alpha, b, beta, gamma): saturate(a*alpha + b*beta + gamma),
\* both inputs of one size and channel count
AddWeighted(a, alpha, b, beta, gamma) ==
    IF ~IsImage(a) \/ ~IsImage(b) THEN CvError
    ELSE IF ~SameSize(a, b) \/ a.ch # b.ch THEN CvError
    ELSE Img(a.h, a.w, a.ch,
             [q \in Pos(a.h, a.w) |->
                 << Saturate(a.px[q][1] * alpha + b.px[q][1] * beta + gamma),
                    Saturate(a.px[q][2] * alpha + b.px[q][2] * beta + gamma),
                    Saturate(a.px[q][3] * alpha + b.px[q][3] * beta + gamma) >>])

\* Steps 3 to 6 of the streaming loop
Compose(cur, background, m) ==
    LET mask_inv == BitwiseNot(m)
        cloak_area == BitwiseAndMasked(background, m)
        rest_of_frame == BitwiseAndMasked(cur, mask_inv)
    IN  IF cloak_area = CvError \/ rest_of_frame = CvError THEN CvError
        ELSE AddWeighted(cloak_area, 1, rest_of_frame, 1, 0)

\* ------------------------------------------------------------ frames
\* a frame passed on as the camera gave it
FlipNone(f) == Img(f.h, f.w, f.ch, [q \in Pos(f.h, f.w) |-> f.px[q]])

\* cv2.flip(frame, 1): mirror around the vertical axis
Flip(f) ==
    Img(f.h, f.w, f.ch, [q \in Pos(f.h, f.w) |-> f.px[<<q[1], f.w + 1 - q[2]>>]])

\* 8-bit BGR -> HSV of cv2.cvtColor(frame, cv2.COLOR_BGR2HSV): fixed point with
\* HsvShift fractional bits, hue on the 0..179 scale
RoundDiv(n, d) == (2 * n + d) \div (2 * d)

SDivTable(v) == IF v = 0 THEN 0 ELSE RoundDiv(U8Max * (2 ^ HsvShift), v)

HDivTable(d) == IF d = 0 THEN 0 ELSE RoundDiv((HueMax + 1) * (2 ^ HsvShift), 6 * d)

Bgr2HsvPx(p) ==
    LET b == p[1]
        g == p[2]
        r == p[3]
        v == MaxOf({b, g, r})
        vmin == MinOf({b, g, r})
        diff == v - vmin
        half == 2 ^ (HsvShift - 1)
        s == (diff * SDivTable(v) + half) \div (2 ^ HsvShift)
        h0 == IF v = r THEN g - b
              ELSE IF v = g THEN b - r + 2 * diff
              ELSE r - g + 4 * diff
        h1 == (h0 * HDivTable(diff) + half) \div (2 ^ HsvShift)
        h == IF h1 < 0 THEN h1 + HueMax + 1 ELSE h1
    IN  <<Saturate(h), s, v>>

CvtColorBad(f) == Img(f.h, f.w, f.ch, f.px)

CvtColor(f) == Img(f.h, f.w, f.ch, [q \in Pos(f.h, f.w) |-> Bgr2HsvPx(f.px[q])])

\* ------------------------------------------------------------ median background
RECURSIVE Insert(_, _)
Insert(x, s) ==
    IF s = <<>> THEN <<x>>
    ELSE IF x <= Head(s) THEN <<x>> \o s
    ELSE <<Head(s)>> \o Insert(x, Tail(s))

RECURSIVE Sorted(_)
Sorted(s) == IF s = <<>> THEN <<>> ELSE Insert(Head(s), Sorted(Tail(s)))

RECURSIVE SumSeq(_)
SumSeq(s) == IF s = <<>> THEN 0 ELSE Head(s) + SumSeq(Tail(s))

MedianU8Bad(vals) == SumSeq(vals) \div Len(vals)

\* np.median(...).astype(np.uint8) of one pixel channel: the middle value, or the
\* mean of the two middle values with its fraction cut off
MedianU8(vals) ==
    LET n == Len(vals)
        s == Sorted(vals)
    IN  IF n % 2 = 1 THEN s[(n + 1) \div 2]
        ELSE (s[n \div 2] + s[n \div 2 + 1]) \div 2

\* deque(maxlen = n).append(x)
DequeAppend(d, x, n) ==
    IF n = 0 THEN d
    ELSE IF Len(d) >= n THEN Append(Tail(d), x)
    ELSE Append(d, x)

ShapeError == [err |-> "ValueError"]

\* the values the buffered frames hold at pixel q, channel k
Channel(buf, q, k) == Materialize([n \in 1..Len(buf) |-> buf[n].px[q][k]])

\* np.median(np.array(buffer), axis = 0).astype(np.uint8); frames of different
\* shapes do not stack into one array
MedianBackground(buf) ==
    IF \E a \in 1..Len(buf), b \in 1..Len(buf) :
           ~SameSize(buf[a], buf[b]) \/ buf[a].ch # buf[b].ch
    THEN ShapeError
    ELSE LET f == buf[1]
         IN  Img(f.h, f.w, f.ch,
                 [q \in Pos(f.h, f.w) |->
                     << MedianU8(Channel(buf, q, 1)),
                        MedianU8(Channel(buf, q, 2)),
                        MedianU8(Channel(buf, q, 3)) >>])

\* ------------------------------------------------------------ overlay text
TextX == 10

\* the pixels cv2.putText(final, ..., (TextX, y), ...) may write: right of its origin
TextRegion(f) == { q \in Pos(f.h, f.w) : q[2] > TextX }

PutText(f, T) ==
    Img(f.h, f.w, f.ch, [q \in Pos(f.h, f.w) |-> IF q \in T THEN <<255, 255, 255>> ELSE f.px[q]])

\* ------------------------------------------------------------ the camera
RedPx == <<0, 0, 255>>

GrayPx(v) == <<v, v, v>>

GrayFrame(v) == Img(FrameH, FrameW, 3, [q \in Pos(FrameH, FrameW) |-> GrayPx(v)])

\* a red cloak on the left, a gray wall on the right
CloakFrame ==
    Img(FrameH, FrameW, 3,
        [q \in Pos(FrameH, FrameW) |-> IF q[2] <= FrameW - 2 THEN RedPx ELSE GrayPx(100)])

\* a frame of another width
SmallFrame == Img(FrameH, FrameW - 1, 3, [q \in Pos(FrameH, FrameW - 1) |-> GrayPx(150)])

SceneFrames == {GrayFrame(150), CloakFrame, SmallFrame}

\* cv2.waitKey(1): -1 without a key press, else the key's code
WaitKeyCodes == {-1, 113, 27, 114, 120}

KeyQ == 113
KeyEsc == 27
KeyR == 114

\* waitKey(1) & 0xFF
LowByte(k) == k % (U8Max + 1)

\* ------------------------------------------------------------ state
VARIABLES
    mode,        \* "gui": invisible_cloak.py, "nogui": invisible_cloak_nogui.py
    color,       \* args.color
    bgFrames,    \* args.bg_frames
    demoFrames,  \* args.demo_frames (nogui)
    camera,      \* the frames cap.read() may yield
    pc,          \* where main is
    opened,      \* cap.isOpened()
    released,    \* cap.release() has been called
    i,           \* loop index of capture_background
    buffer,      \* deque of capture_background
    recapture,   \* capture_background was called from the 'r' branch
    bg,          \* main's bg
    ranges,      \* main's ranges
    frameNum,    \* loop index of the nogui demo loop
    frame,       \* the mirrored frame of this iteration
    hsv,
    mask,
    final,
    key,         \* the last waitKey(1) & 0xFF
    reads,       \* history: number of cap.read() calls
    emitted,     \* history: for each frame shown or written, the read it came from
    shown,       \* the picture in the window / the last result written
    captures,    \* history: number of captures that returned a background
    lastCapture, \* history: what the last such capture returned
    capFail,     \* history: the counters when a capture read failed
    exit,        \* history: why main left its loop
    probe        \* inputs of the checks of single functions

vars == << mode, color, bgFrames, demoFrames, camera, pc, opened, released, i, buffer,
           recapture, bg, ranges, frameNum, frame, hsv, mask, final, key, reads,
           emitted, shown, captures, lastCapture, capFail, exit, probe >>

args == << mode, color, bgFrames, demoFrames, camera >>

iter == << frame, hsv, mask, final >>

hist == << reads, emitted, shown, captures, lastCapture, capFail >>

NoFail == [none |-> TRUE]

TryRegion == {"capture", "median", "stream", "process", "emit", "key"}

\* the states of the orchestrator
Phase(p) ==
    IF p \in {"init", "window"} THEN "INIT"
    ELSE IF p \in {"capture", "median"} THEN "BACKGROUND_CAPTURE"
    ELSE IF p \in {"stream", "process", "emit", "key"} THEN "STREAMING"
    ELSE "TERMINATED"

Init ==
    /\ mode \in {"gui", "nogui"}
    /\ color \in NoGuiColors
    /\ bgFrames \in 1..MaxBgFrames
    /\ demoFrames \in (IF mode = "nogui" THEN 0..MaxDemoFrames ELSE {0})
    /\ camera = SceneFrames
    /\ pc = "init"
    /\ opened = FALSE
    /\ released = FALSE
    /\ i = 0
    /\ buffer = <<>>
    /\ recapture = FALSE
    /\ bg = NoImage
    /\ ranges = <<>>
    /\ frameNum = 0
    /\ frame = NoImage
    /\ hsv = NoImage
    /\ mask = NoImage
    /\ final = NoImage
    /\ key = -1
    /\ reads = 0
    /\ emitted = <<>>
    /\ shown = NoImage
    /\ captures = 0
    /\ lastCapture = NoImage
    /\ capFail = NoFail
    /\ exit = "running"
    /\ probe = NoImage

\* ------------------------------------------------------------ INIT
\* cap = cv2.VideoCapture(args.camera); if not cap.isOpened(): raise / return
OpenCamera ==
    /\ pc = "init"
    /\ \E ok \in BOOLEAN :
        /\ opened' = ok
        /\ pc' = IF ~ok THEN "done" ELSE IF mode = "gui" THEN "window" ELSE "capture"
        /\ exit' = IF ok THEN exit ELSE "open_failed"
    /\ UNCHANGED << args, released, i, buffer, recapture, bg, ranges, frameNum, iter, key,
                    hist, probe >>

\* cv2.namedWindow(...), before the try: it raises where OpenCV has no GUI support
NamedWindow ==
    /\ pc = "window"
    /\ \E ok \in BOOLEAN :
        /\ pc' = IF ok THEN "capture" ELSE "done"
        /\ exit' = IF ok THEN exit ELSE "window_failed"
    /\ UNCHANGED << args, opened, released, i, buffer, recapture, bg, ranges, frameNum,
                    iter, key, hist, probe >>

\* ------------------------------------------------------------ BACKGROUND_CAPTURE
\* where the loop of capture_background goes after iteration n with key k
AfterCaptureBad(n, k) == IF n >= bgFrames THEN "median" ELSE "capture"

AfterCapture(n, k) ==
    IF mode = "gui" /\ k = KeyQ THEN "median"
    ELSE IF n >= bgFrames THEN "median"
    ELSE "capture"

\* a failed read in capture_background: raise RuntimeError, caught in main
\* a capture that tries again after a failed read
CaptureReadFailedBad == "capture"

CaptureReadFailed == "finally"

\* one iteration of the loop of capture_background / capture_background_nogui: the
\* read, the mirrored frame into the deque and, with a window, the progress picture
\* and the key that may end the loop early
CaptureRead ==
    /\ pc = "capture"
    /\ i < bgFrames
    /\ reads < MaxReads
    /\ \E ret \in BOOLEAN, f \in camera, k \in WaitKeyCodes :
        /\ reads' = reads + 1
        /\ IF ~ret
           THEN /\ pc' = CaptureReadFailed
                /\ exit' = "error"
                /\ capFail' = [reads |-> reads + 1, emitted |-> Len(emitted),
                               captures |-> captures, bg |-> bg]
                /\ UNCHANGED << i, buffer, key, shown >>
           ELSE /\ buffer' = DequeAppend(buffer, Flip(f), bgFrames)
                /\ i' = i + 1
                /\ IF mode = "gui"
                   THEN \E T \in SUBSET TextRegion(f) : shown' = PutText(Flip(f), T)
                   ELSE shown' = shown
                /\ key' = IF mode = "gui" THEN LowByte(k) ELSE key
                /\ pc' = AfterCapture(i + 1, LowByte(k))
                /\ UNCHANGED << exit, capFail >>
    /\ UNCHANGED << args, opened, released, recapture, bg, ranges, frameNum, iter,
                    emitted, captures, lastCapture, probe >>

\* bg = capture_background(...): what main holds once the call has returned
NewBackgroundBad(old, med) == IF old = NoImage THEN med ELSE old

\* a recapture that blends the old background into the new one
NewBackgroundBlend(old, med) ==
    IF old = NoImage \/ ~SameSize(old, med) THEN med
    ELSE Img(med.h, med.w, med.ch,
             [q \in Pos(med.h, med.w) |->
                 << (old.px[q][1] + med.px[q][1]) \div 2,
                    (old.px[q][2] + med.px[q][2]) \div 2,
                    (old.px[q][3] + med.px[q][3]) \div 2 >>])

NewBackground(old, med) == med

\* the median of the buffer, its return, and main's assignment to bg
\* (followed, the first time, by ranges = get_hsv_ranges(args.color))
CaptureMedian ==
    /\ pc = "median"
    /\ LET med == MedianBackground(buffer)
       IN  IF med = ShapeError
           THEN /\ pc' = "finally"
                /\ exit' = "error"
                /\ UNCHANGED << bg, ranges, captures, lastCapture, frameNum >>
           ELSE /\ bg' = NewBackground(bg, med)
                /\ ranges' = IF recapture THEN ranges
                             ELSE IF mode = "gui" THEN GetHsvRanges(color)
                             ELSE GetHsvRangesNoGui(color)
                /\ captures' = captures + 1
                /\ lastCapture' = med
                /\ frameNum' = 0
                /\ pc' = "stream"
                /\ exit' = exit
    /\ UNCHANGED << args, opened, released, i, buffer, recapture, iter, key, reads,
                    emitted, shown, capFail, probe >>

\* ------------------------------------------------------------ STREAMING
\* a loop that goes on to its next iteration after a failed read
StreamReadFailedBad == "stream"

\* a failed read in the streaming loop: break
StreamReadFailed == "finally"

\* ret, frame = cap.read(); if not ret: break; frame = cv2.flip(frame, 1)
StreamRead ==
    /\ pc = "stream"
    /\ mode = "nogui" => frameNum < demoFrames
    /\ reads < MaxReads
    /\ \E ret \in BOOLEAN, f \in camera :
        /\ reads' = reads + 1
        /\ IF ret
           THEN /\ frame' = Flip(f)
                /\ pc' = "process"
                /\ exit' = exit
           ELSE /\ frame' = frame
                /\ pc' = StreamReadFailed
                /\ exit' = "read_failed"
    /\ UNCHANGED << args, opened, released, i, buffer, recapture, bg, ranges, frameNum,
                    hsv, mask, final, key, emitted, shown, captures, lastCapture,
                    capFail, probe >>

\* for frame_num in range(args.demo_frames): the range is used up
DemoComplete ==
    /\ pc = "stream"
    /\ mode = "nogui"
    /\ frameNum >= demoFrames
    /\ pc' = "finally"
    /\ exit' = "complete"
    /\ UNCHANGED << args, opened, released, i, buffer, recapture, bg, ranges, frameNum,
                    iter, key, hist, probe >>

\* an iteration whose bitwise_and writes its result over bg
BackgroundAfterIterationBad(b, m) ==
    IF IsImage(BitwiseAndMasked(b, m)) THEN BitwiseAndMasked(b, m) ELSE b

\* what an iteration leaves in bg: cv2.bitwise_and(bg, bg, mask = mask) reads bg
\* and allocates its result, and cv2.putText draws on final, the array that
\* cv2.addWeighted allocated
BackgroundAfterIteration(b, m) == b

\* hsv, mask, the composite and the overlay text; an OpenCV error leaves the loop
StreamProcess ==
    /\ pc = "process"
    /\ LET h == CvtColor(frame)
           m == BuildMask(h, ranges)
           c == Compose(frame, bg, m)
       IN  /\ hsv' = h
           /\ mask' = m
           /\ bg' = BackgroundAfterIteration(bg, m)
           /\ IF c = CvError
              THEN /\ final' = final
                   /\ pc' = "finally"
                   /\ exit' = "error"
              ELSE /\ \E T \in SUBSET TextRegion(c) : final' = PutText(c, T)
                   /\ pc' = "emit"
                   /\ exit' = exit
    /\ UNCHANGED << args, opened, released, i, buffer, recapture, ranges, frameNum,
                    frame, key, hist, probe >>

\* a loop that shows the same composite again
AfterEmitBad(m) == "emit"

\* after the frame is out: the key poll with a window, the next iteration without
AfterEmit(m) == IF m = "gui" THEN "key" ELSE "stream"

\* cv2.imshow("Invisible Cloak", final) / the three cv2.imwrite calls
StreamEmit ==
    /\ pc = "emit"
    /\ shown' = final
    /\ emitted' = Append(emitted, reads)
    /\ frameNum' = IF mode = "nogui" THEN frameNum + 1 ELSE frameNum
    /\ pc' = AfterEmit(mode)
    /\ UNCHANGED << args, opened, released, i, buffer, recapture, bg, ranges, iter, key,
                    reads, captures, lastCapture, capFail, exit, probe >>

\* a poll that takes only 'q' for the cancellation signal
AfterKeyNoEsc(k) ==
    IF k = KeyQ THEN "finally"
    ELSE IF k = KeyR THEN "capture"
    ELSE "stream"

\* a poll that does not know the recapture signal
AfterKeyNoRecapture(k) ==
    IF k = KeyQ \/ k = KeyEsc THEN "finally"
    ELSE "stream"

\* where main goes on the polled key: break, recapture, or the next iteration
AfterKey(k) ==
    IF k = KeyQ \/ k = KeyEsc THEN "finally"
    ELSE IF k = KeyR THEN "capture"
    ELSE "stream"

\* key = cv2.waitKey(1) & 0xFF: quit, recapture, or the next iteration
StreamKey ==
    /\ pc = "key"
    /\ \E k \in WaitKeyCodes :
        /\ key' = LowByte(k)
        /\ pc' = AfterKey(LowByte(k))
        /\ exit' = IF AfterKey(LowByte(k)) = "finally" THEN "quit" ELSE exit
        /\ IF AfterKey(LowByte(k)) = "capture"
           THEN /\ i' = 0
                /\ buffer' = <<>>
                /\ recapture' = TRUE
           ELSE UNCHANGED << i, buffer, recapture >>
    /\ UNCHANGED << args, opened, released, bg, ranges, frameNum, iter, hist, probe >>

\* ------------------------------------------------------------ TERMINATED
\* except KeyboardInterrupt: anywhere inside the try
Interrupt ==
    /\ pc \in TryRegion
    /\ pc' = "finally"
    /\ exit' = "interrupted"
    /\ UNCHANGED << args, opened, released, i, buffer, recapture, bg, ranges, frameNum,
                    iter, key, hist, probe >>

ReleaseBad(r) == r

\* cap.release()
Release(r) == TRUE

\* finally: cap.release() (and cv2.destroyAllWindows())
Finally ==
    /\ pc = "finally"
    /\ released' = Release(released)
    /\ pc' = "done"
    /\ UNCHANGED << args, opened, i, buffer, recapture, bg, ranges, frameNum, iter, key,
                    hist, exit, probe >>

Next ==
    \/ OpenCamera
    \/ NamedWindow
    \/ CaptureRead
    \/ CaptureMedian
    \/ StreamRead
    \/ DemoComplete
    \/ StreamProcess
    \/ StreamEmit
    \/ StreamKey
    \/ Interrupt
    \/ Finally

Spec == Init /\ [][Next]_vars

\* main with its finally block run to the end once it is entered
FairSpec == Spec /\ WF_vars(Finally)

\* invisible_cloak_nogui.py alone: no window, no key poll; main keeps running
\* until it has returned
InitNoGui == Init /\ mode = "nogui"

NextNoGui ==
    \/ Interrupt
    \/ Finally
    \/ OpenCamera
    \/ CaptureRead
    \/ CaptureMedian
    \/ StreamRead
    \/ DemoComplete
    \/ StreamEmit
    \/ StreamProcess

SpecNoGui == InitNoGui /\ [][NextNoGui]_vars /\ WF_vars(NextNoGui)

\* ------------------------------------------------------------ build_mask alone
\* The orchestrator's variables at rest, for the runs of single functions.
AtRest ==
    /\ mode = "gui"
    /\ bgFrames = 1
    /\ demoFrames = 0
    /\ opened = TRUE
    /\ released = FALSE
    /\ i = 0
    /\ buffer = <<>>
    /\ recapture = FALSE
    /\ frameNum = 0
    /\ key = -1
    /\ reads = 0
    /\ emitted = <<>>
    /\ shown = NoImage
    /\ captures = 0
    /\ lastCapture = NoImage
    /\ capFail = NoFail
    /\ exit = "running"

GrayHsv == Bgr2HsvPx(GrayPx(128))

\* an HSV pixel of bound-pair r: its lower corner, its centre, its upper corner
PairPixel(r, at) ==
    LET top == << IF r.hi[1] > HueMax THEN HueMax ELSE r.hi[1], r.hi[2], r.hi[3] >>
    IN  IF at = "lo" THEN r.lo
        ELSE IF at = "hi" THEN top
        ELSE << (r.lo[1] + top[1]) \div 2, (r.lo[2] + top[2]) \div 2, (r.lo[3] + top[3]) \div 2 >>

InBlock(b, q) == b.r0 <= q[1] /\ q[1] <= b.r1 /\ b.c0 <= q[2] /\ q[2] <= b.c1

\* test_mask_creation's picture: one solid rectangle of a colour on neutral gray
BlockImage(b, p) ==
    Img(MaskH, MaskW, 3, [q \in Pos(MaskH, MaskW) |-> IF InBlock(b, q) THEN p ELSE GrayHsv])

Blocks ==
    { [r0 |-> a, r1 |-> b, c0 |-> c, c1 |-> d] :
        a \in 1..MaskH, b \in 1..MaskH, c \in 1..MaskW, d \in 1..MaskW }

InitMask ==
    /\ AtRest
    /\ camera = {}
    /\ color \in SupportedColors \cup UnknownColors
    /\ \E b \in { x \in Blocks : x.r0 <= x.r1 /\ x.c0 <= x.c1 },
          n \in 1..2, at \in {"lo", "mid", "hi"} :
        /\ n <= Len(GetHsvRanges(color))
        /\ probe = [block |-> b, pair |-> n, at |-> at]
        /\ hsv = BlockImage(b, PairPixel(GetHsvRanges(color)[n], at))
    /\ pc = "m_ranges"
    /\ ranges = <<>>
    /\ bg = NoImage
    /\ frame = NoImage
    /\ mask = NoImage
    /\ final = NoImage

\* ranges = get_hsv_ranges(color)
LookupRanges ==
    /\ pc = "m_ranges"
    /\ ranges' = GetHsvRanges(color)
    /\ pc' = "m_inrange"
    /\ UNCHANGED << args, opened, released, i, buffer, recapture, bg, frameNum, iter, key,
                    hist, exit, probe >>

\* build_mask, its loop: mask_total is the OR of the in-range masks
MaskInRange ==
    /\ pc = "m_inrange"
    /\ mask' = RawMask(hsv, ranges)
    /\ pc' = "m_morph"
    /\ UNCHANGED << args, opened, released, i, buffer, recapture, bg, ranges, frameNum,
                    frame, hsv, final, key, hist, exit, probe >>

\* build_mask, its two morphologyEx calls on mask_total, and its return
MaskMorph ==
    /\ pc = "m_morph"
    /\ mask' = Denoise(mask)
    /\ pc' = "m_done"
    /\ UNCHANGED << args, opened, released, i, buffer, recapture, bg, ranges, frameNum,
                    frame, hsv, final, key, hist, exit, probe >>

NextMask == LookupRanges \/ MaskInRange \/ MaskMorph

SpecMask == InitMask /\ [][NextMask]_vars

\* ------------------------------------------------------------ the compositor alone
ProbePixels == { <<0, 0, 0>>, <<255, 255, 255>>, <<1, 128, 254>>, <<200, 100, 50>> }

ProbeWidths == { w \in {ComposeW - 1, ComposeW} : w >= 1 }

ColorImages(w) == { Img(1, w, 3, f) : f \in [Pos(1, w) -> ProbePixels] }

MaskImages(w) == { Img(1, w, 1, f) : f \in [Pos(1, w) -> {0, U8Max}] }

InitCompose ==
    /\ AtRest
    /\ camera = {}
    /\ color = "red"
    /\ \E wf \in ProbeWidths, wb \in ProbeWidths, wm \in ProbeWidths :
        /\ frame \in ColorImages(wf)
        /\ bg \in ColorImages(wb)
        /\ mask \in MaskImages(wm)
    /\ pc = "c_compose"
    /\ ranges = <<>>
    /\ hsv = NoImage
    /\ final = NoImage
    /\ probe = NoImage

\* Steps 3 to 6 of the streaming loop on a given frame, background and mask;
\* an OpenCV error leaves the loop for the except and finally clauses
ComposeStep ==
    /\ pc = "c_compose"
    /\ LET c == Compose(frame, bg, mask)
       IN  IF c = CvError
           THEN /\ final' = final
                /\ pc' = "finally"
                /\ exit' = "error"
           ELSE /\ final' = c
                /\ pc' = "emit"
                /\ exit' = exit
    /\ UNCHANGED << args, opened, released, i, buffer, recapture, bg, ranges, frameNum,
                    frame, hsv, mask, key, hist, probe >>

NextCompose == ComposeStep \/ StreamEmit \/ Finally

SpecCompose == InitCompose /\ [][NextCompose]_vars

\* ------------------------------------------------------------ the estimator alone
MedianValues == {50, 100, 200, 201}

InitMedian ==
    /\ mode \in {"gui", "nogui"}
    /\ bgFrames \in 1..MaxMedianFrames
    /\ demoFrames = 0
    /\ camera = { GrayFrame(v) : v \in MedianValues }
    /\ color = "red"
    /\ pc = "capture"
    /\ opened = TRUE
    /\ released = FALSE
    /\ i = 0
    /\ buffer = <<>>
    /\ recapture = FALSE
    /\ bg = NoImage
    /\ ranges = <<>>
    /\ frameNum = 0
    /\ frame = NoImage
    /\ hsv = NoImage
    /\ mask = NoImage
    /\ final = NoImage
    /\ key = -1
    /\ reads = 0
    /\ emitted = <<>>
    /\ shown = NoImage
    /\ captures = 0
    /\ lastCapture = NoImage
    /\ capFail = NoFail
    /\ exit = "running"
    /\ probe = NoImage

NextMedian == CaptureRead \/ CaptureMedian \/ Finally

SpecMedian == InitMedian /\ [][NextMedian]_vars

\* ============================================================ properties

SizesAgree == SameSize(frame, bg) /\ SameSize(frame, mask)

\* C1: composing with a mask that is 255 on a region R and 0 elsewhere gives, at every
\* pixel and channel, exactly the background's value inside R and exactly the current
\* frame's value outside R.
ComposeSelectsByMask ==
    (pc # "c_compose" /\ SizesAgree) =>
        /\ IsImage(final)
        /\ \A q \in Pos(frame.h, frame.w) :
               final.px[q] = IF mask.px[q] = U8Max THEN bg.px[q] ELSE frame.px[q]

\* C1 happens: a composed frame that took a bright pixel from the background inside
\* the mask and kept a different pixel of the current frame outside it.
ComposeSelectsWitness ==
    /\ pc = "emit"
    /\ SizesAgree
    /\ \E q1 \in Pos(frame.h, frame.w), q2 \in Pos(frame.h, frame.w) :
        /\ mask.px[q1] = U8Max /\ mask.px[q2] = 0
        /\ final.px[q1] = bg.px[q1] /\ bg.px[q1] # frame.px[q1]
        /\ final.px[q2] = frame.px[q2] /\ bg.px[q2] # frame.px[q2]
        /\ bg.px[q1] = <<255, 255, 255>> /\ frame.px[q1] = <<200, 100, 50>>

AllMask(v) == \A q \in Pos(mask.h, mask.w) : mask.px[q] = v

\* C2: with an all-zero mask the composed frame is the current frame, and with an
\* all-255 mask it is the background, whatever the two images hold.
ComposeAllOrNothing ==
    (pc # "c_compose" /\ SizesAgree) =>
        /\ AllMask(0) => final = frame
        /\ AllMask(U8Max) => final = bg

\* C2 happens: an all-zero mask left a frame that differs from the background as it is.
ComposeAllOrNothingWitness ==
    /\ pc = "emit"
    /\ SizesAgree
    /\ AllMask(0)
    /\ final = frame
    /\ \A q \in Pos(frame.h, frame.w) : frame.px[q] # bg.px[q]

\* C7: when frame, background and mask do not all have one width and height, the
\* compositing raises an error, leaves no composed frame and nothing is shown or
\* written for that frame; a frame that is produced has the size of all three inputs
\* (nothing was cropped or resized).
MismatchRaises ==
    /\ (pc # "c_compose" /\ ~SizesAgree) =>
           /\ exit = "error"
           /\ pc \in {"finally", "done"}
           /\ final = NoImage
           /\ shown = NoImage
           /\ emitted = <<>>
    /\ IsImage(final) =>
           SameSize(final, frame) /\ SameSize(final, bg) /\ SameSize(final, mask)

\* C7 happens: a mask narrower than frame and background ended the run in an error.
MismatchWitness ==
    /\ pc = "done"
    /\ exit = "error"
    /\ SameSize(frame, bg)
    /\ ~SameSize(frame, mask)
    /\ final = NoImage

\* ------------------------------------------------------------ the mask of a block
BlockPixels(b) == { q \in Pos(MaskH, MaskW) : InBlock(b, q) }

SetPixels(m, S) == { q \in S : m.px[q] = U8Max }

\* q is in the block or touches it (a side or a corner)
NearBlock(b, q) ==
    b.r0 - 1 <= q[1] /\ q[1] <= b.r1 + 1 /\ b.c0 - 1 <= q[2] /\ q[2] <= b.c1 + 1

\* the smallest side an opening of OpenIterations rounds leaves standing anywhere
MinBlockSide == OpenIterations * (KernelSize - 1) + 1

BigBlock(b) == b.r1 - b.r0 + 1 >= MinBlockSide /\ b.c1 - b.c0 + 1 >= MinBlockSide

\* C3 as stated: the mask of a solid in-range block on neutral gray has at least 95%
\* of the block's pixels set and no pixel set outside the block.
BlockMaskedExactly ==
    pc = "m_done" =>
        /\ 100 * Cardinality(SetPixels(mask, BlockPixels(probe.block)))
               >= 95 * Cardinality(BlockPixels(probe.block))
        /\ SetPixels(mask, Pos(MaskH, MaskW) \ BlockPixels(probe.block)) = {}

\* C3 amended: for a solid in-range rectangle of at least 5 x 5 pixels on neutral
\* gray, the mask is 255 on every pixel of the block and on the gray pixels that touch
\* the block (the ring the final dilation adds), and 0 on every pixel farther away.
BlockMaskedWithRing ==
    (pc = "m_done" /\ BigBlock(probe.block)) =>
        \A q \in Pos(MaskH, MaskW) :
            mask.px[q] = IF NearBlock(probe.block, q) THEN U8Max ELSE 0

\* C3 happens: a 5 x 5 block away from two borders, wholly set, with set gray pixels
\* around it and clear gray pixels farther away.
BlockMaskedWitness ==
    /\ pc = "m_done"
    /\ BigBlock(probe.block)
    /\ probe.at = "mid"
    /\ SetPixels(mask, BlockPixels(probe.block)) = BlockPixels(probe.block)
    /\ \E q \in Pos(MaskH, MaskW) : ~InBlock(probe.block, q) /\ mask.px[q] = U8Max
    /\ \E q \in Pos(MaskH, MaskW) : ~InBlock(probe.block, q) /\ mask.px[q] = 0

\* C5: get_hsv_ranges gives every supported colour at least one bound-pair: two for
\* red, one for each of the other nine.
RangeCounts ==
    (pc # "m_ranges" /\ color \in SupportedColors) =>
        /\ Len(ranges) >= 1
        /\ color = "red" => Len(ranges) = 2
        /\ color # "red" => Len(ranges) = 1

\* C5 happens: the lookup ran for red and returned its two pairs.
RangeCountsWitness ==
    /\ pc = "m_inrange"
    /\ color = "red"
    /\ Len(ranges) = 2
    /\ ranges[1] # ranges[2]

\* ------------------------------------------------------------ the background
\* the k-th smallest of vals, by rank: fewer than k values lie below it and at
\* least k values are at most it
KthSmallest(vals, k) ==
    CHOOSE v \in { vals[n] : n \in DOMAIN vals } :
        /\ Cardinality({ n \in DOMAIN vals : vals[n] < v }) < k
        /\ k <= Cardinality({ n \in DOMAIN vals : vals[n] <= v })

\* the statistical median as an 8-bit integer: the middle value, or the mean of
\* the two middle values without its fraction
StatMedian(vals) ==
    LET n == Len(vals)
    IN  (KthSmallest(vals, (n + 1) \div 2) + KthSmallest(vals, n \div 2 + 1)) \div 2

\* the values of the constant frames the capture stored
StoredValues == [n \in 1..Len(buffer) |-> buffer[n].px[<<1, 1>>][1]]

\* C4: once capture_background has returned over constant frames of values
\* v1..vN, every pixel and channel of the background is the statistical median of
\* v1..vN as an 8-bit integer (for 50, 200, 100 in any order it is 100): it is
\* computed from the ranks of the values, not as their mean and not as the last frame
BackgroundIsMedian ==
    pc = "stream" =>
        /\ IsImage(bg)
        /\ SameSize(bg, buffer[1])
        /\ \A q \in Pos(bg.h, bg.w), k \in 1..3 :
               bg.px[q][k] = StatMedian(Channel(buffer, q, k))
        /\ (Len(buffer) = 3 /\ { StoredValues[n] : n \in 1..3 } = {50, 100, 200})
               => bg = GrayFrame(100)

BackgroundIsMedianWitness ==
    /\ pc = "stream"
    /\ StoredValues = <<50, 200, 100>>
    /\ bg = GrayFrame(100)

\* ------------------------------------------------------------ the orchestrator
\* C8: once a read of a background capture has failed, the capture has returned
\* no background (main's bg and the count of completed captures are what they were),
\* main is on its way out, no frame is read or emitted afterwards, and so the
\* capture is not tried again
CaptureFailureIsFatal ==
    capFail # NoFail =>
        /\ pc \in {"finally", "done"}
        /\ exit = "error"
        /\ reads = capFail.reads
        /\ Len(emitted) = capFail.emitted
        /\ captures = capFail.captures
        /\ bg = capFail.bg

CaptureFailureWitness ==
    /\ pc = "done"
    /\ capFail # NoFail
    /\ capFail.reads > 1
    /\ bg = NoImage

\* the transitions between the orchestrator's states: the normal course, the
\* recapture, and the fatal exits from INIT and BACKGROUND_CAPTURE
AllowedEdges ==
    { <<"INIT", "BACKGROUND_CAPTURE">>,
      <<"BACKGROUND_CAPTURE", "STREAMING">>,
      <<"STREAMING", "BACKGROUND_CAPTURE">>,
      <<"STREAMING", "TERMINATED">>,
      <<"INIT", "TERMINATED">>,
      <<"BACKGROUND_CAPTURE", "TERMINATED">> }

\* a frame has been masked, composited or emitted
Processed == mask # NoImage \/ final # NoImage \/ emitted # <<>>

\* C9: the orchestrator moves INIT -> BACKGROUND_CAPTURE -> STREAMING ->
\* (TERMINATED | BACKGROUND_CAPTURE), leaving early only for TERMINATED on a fatal
\* error; it is streaming, or has masked, composited or emitted a frame, only after
\* a capture has completed, and main's bg is then what the most recently completed
\* capture returned, which is what every composite about to be emitted was made of
CaptureBeforeStreaming ==
    /\ [][Phase(pc') # Phase(pc) => <<Phase(pc), Phase(pc')>> \in AllowedEdges]_vars
    /\ []((Phase(pc) = "STREAMING" \/ Processed) => (captures >= 1 /\ bg = lastCapture))
    /\ [](pc = "emit" =>
            LET c == Compose(frame, lastCapture, mask)
            IN  /\ IsImage(c)
                /\ SameSize(final, c)
                /\ \A q \in Pos(c.h, c.w) \ TextRegion(c) : final.px[q] = c.px[q])

CaptureBeforeStreamingWitness ==
    /\ pc = "emit"
    /\ recapture
    /\ captures = 2
    /\ emitted # <<>>
    /\ \E q \in Pos(final.h, final.w) : final.px[q] # frame.px[q]

\* C10: when main has ended, on whatever path, cap.release() has been called
ReleasedOnExit == pc = "done" => released

\* main has ended without cap.release(): the source did not open, or the window
\* could not be created
ExitWithoutRelease == pc = "done" /\ ~released

\* C11: a 'q' or ESC seen by the poll of a streaming iteration takes main out of
\* the loop to TERMINATED, and TERMINATED is terminal: from then on no frame is
\* read, masked, composited or emitted, and no capture is started
CancelTerminates ==
    /\ [][(pc = "key" /\ key' \in {KeyQ, KeyEsc}) => Phase(pc') = "TERMINATED"]_vars
    /\ [][Phase(pc) = "TERMINATED" =>
            /\ Phase(pc') = "TERMINATED"
            /\ UNCHANGED << reads, emitted, shown, iter, i, buffer, bg, captures >>]_vars

CancelTerminatesWitness ==
    /\ pc = "done"
    /\ exit = "quit"
    /\ key = KeyEsc
    /\ emitted # <<>>
    /\ released

\* C12: an 'r' seen by the poll of a streaming iteration starts capture_background
\* again with an empty buffer; from then until main leaves, the source stays open
\* and unreleased; and when that capture returns, main streams with its result
RecaptureOnSameSource ==
    /\ [][(pc = "key" /\ key' = KeyR /\ exit' # "interrupted") =>
            /\ pc' = "capture"
            /\ i' = 0
            /\ buffer' = <<>>
            /\ UNCHANGED << opened, released, bg >>]_vars
    /\ []((recapture /\ Phase(pc) # "TERMINATED") => (opened /\ ~released))
    /\ [][(recapture /\ pc = "median" /\ MedianBackground(buffer) # ShapeError
             /\ exit' # "interrupted") =>
            /\ pc' = "stream"
            /\ bg' = MedianBackground(buffer)
            /\ UNCHANGED << opened, released >>]_vars

RecaptureOnSameSourceWitness ==
    /\ pc = "stream"
    /\ recapture
    /\ captures = 2
    /\ bg = lastCapture
    /\ opened
    /\ ~released

\* C13: for a name that is not one of the ten, get_hsv_ranges returns (it raises
\* nothing) exactly the two bound-pairs it returns for "red": hue 0..10 and hue
\* 170..180, each with S >= 120 and V >= 70
UnknownColorGetsRed ==
    (pc # "m_ranges" /\ color \notin SupportedColors) =>
        /\ ranges = GetHsvRanges("red")
        /\ ranges = << Range(<<0, 120, 70>>, <<10, 255, 255>>),
                       Range(<<170, 120, 70>>, <<180, 255, 255>>) >>

UnknownColorWitness ==
    /\ pc = "m_done"
    /\ color = "magenta"
    /\ Len(ranges) = 2
    /\ ranges[2].lo[1] = 170

\* C14: when the loop of capture_background has ended without raising, so that a
\* background is about to be returned, exactly frame_count frames have been read
\* in the call and the buffer the median is taken over holds exactly frame_count
\* frames, whatever keys were pressed
ExactFrameCount ==
    pc = "median" => (i = bgFrames /\ Len(buffer) = bgFrames)

\* a 'q' during the capture: a background made of fewer than frame_count frames
\* has been returned and main is streaming with it
ShortCapture ==
    /\ pc = "stream"
    /\ mode = "gui"
    /\ key = KeyQ
    /\ Len(buffer) < bgFrames
    /\ bg = MedianBackground(buffer)

\* C15: every call of capture_background starts with an empty buffer, the buffer
\* holds exactly the frames read in the call, and the background main gets when
\* the call returns is the median of that buffer: it is made of the frames of that
\* call alone, whatever the previous background and the earlier captures were
RecaptureFromOwnFrames ==
    /\ [][(pc # "capture" /\ pc' = "capture") => (i' = 0 /\ buffer' = <<>>)]_vars
    /\ [](pc \in {"capture", "median"} => Len(buffer) = i)
    /\ [][(pc = "median" /\ pc' = "stream") => bg' = MedianBackground(buffer)]_vars

\* a second capture has returned a background under which the last composite,
\* made with the previous background, would have come out differently
RecaptureFromOwnFramesWitness ==
    /\ pc = "stream"
    /\ recapture
    /\ captures = 2
    /\ bgFrames = 2
    /\ Len(buffer) = 2
    /\ bg = MedianBackground(buffer)
    /\ IsImage(final)
    /\ IsImage(Compose(frame, bg, mask))
    /\ final # Compose(frame, bg, mask)

\* C16: no step of a streaming iteration changes the background, whether or not
\* it ends in a recapture signal; the background changes only in the step in which
\* a capture returns, and then to what that capture returned
BackgroundOnlyReplaced ==
    /\ [][Phase(pc) = "STREAMING" => bg' = bg]_vars
    /\ [][bg' # bg => (pc = "median" /\ pc' = "stream" /\ bg' = lastCapture')]_vars

\* two iterations have masked, composited and emitted under one background, with
\* a cloak region in the last mask
BackgroundOnlyReplacedWitness ==
    /\ pc = "stream"
    /\ captures = 1
    /\ Len(emitted) >= 2
    /\ bg = lastCapture
    /\ \E q \in Pos(mask.h, mask.w) : mask.px[q] = U8Max
    /\ \E q \in Pos(mask.h, mask.w) : mask.px[q] = 0

\* ------------------------------------------------------------ the mask in use
\* the two parts the compositor adds up
CloakArea == BitwiseAndMasked(bg, mask)

RestOfFrame == BitwiseAndMasked(frame, BitwiseNot(mask))

\* C17: with a mask that build_mask returned, at every pixel exactly one of the
\* two parts is not zeroed: where the mask is set the cloak part is the background
\* and the kept part is 0, where it is clear the kept part is the frame and the
\* cloak part is 0; so their sum stays within 255 on every channel
RegionsExclusive ==
    LET cloak == CloakArea
        rest == RestOfFrame
    IN  (IsImage(mask) /\ IsImage(cloak) /\ IsImage(rest)) =>
            \A q \in Pos(mask.h, mask.w) :
                /\ \/ /\ mask.px[q] = U8Max
                      /\ cloak.px[q] = bg.px[q]
                      /\ rest.px[q] = <<0, 0, 0>>
                   \/ /\ mask.px[q] = 0
                      /\ cloak.px[q] = <<0, 0, 0>>
                      /\ rest.px[q] = frame.px[q]
                /\ \A k \in 1..3 : cloak.px[q][k] + rest.px[q][k] <= U8Max

\* a composite in which a set pixel's background and frame values would not have
\* fitted into 8 bits together
RegionsExclusiveWitness ==
    /\ pc = "emit"
    /\ IsImage(CloakArea)
    /\ IsImage(RestOfFrame)
    /\ \E q1 \in Pos(mask.h, mask.w), q2 \in Pos(mask.h, mask.w) :
        /\ mask.px[q1] = U8Max
        /\ mask.px[q2] = 0
        /\ bg.px[q1][3] + frame.px[q1][3] > U8Max
        /\ final.px[q1] = bg.px[q1]
        /\ final.px[q2] = frame.px[q2]

\* C18: the mask of build_mask, before its morphology and after it, has one
\* channel, the height and width of the HSV image, and no value but 0 and 255
MaskIsBinary ==
    pc \in {"m_morph", "m_done"} =>
        /\ IsImage(mask)
        /\ mask.ch = 1
        /\ SameSize(mask, hsv)
        /\ \A q \in Pos(hsv.h, hsv.w) : mask.px[q] \in {0, U8Max}

MaskIsBinaryWitness ==
    /\ pc = "m_done"
    /\ mask.h = MaskH
    /\ mask.w = MaskW
    /\ \E q \in Pos(MaskH, MaskW) : mask.px[q] = U8Max
    /\ \E q \in Pos(MaskH, MaskW) : mask.px[q] = 0

\* the HSV pixel p is inside the inclusive bounds of pair r
Within(p, r) ==
    /\ r.lo[1] <= p[1] /\ p[1] <= r.hi[1]
    /\ r.lo[2] <= p[2] /\ p[2] <= r.hi[2]
    /\ r.lo[3] <= p[3] /\ p[3] <= r.hi[3]

\* C19: before the morphology, the mask is 255 at a pixel exactly when the pixel
\* is within the inclusive bounds of at least one pair of the profile, and 0
\* otherwise; for red that is hue in 0..10 or in 170..180 with S >= 120 and V >= 70
RawMaskIsUnion ==
    pc = "m_morph" =>
        \A q \in Pos(hsv.h, hsv.w) :
            /\ mask.px[q] = IF \E n \in 1..Len(ranges) : Within(hsv.px[q], ranges[n])
                            THEN U8Max ELSE 0
            /\ color = "red" =>
                   (mask.px[q] = U8Max <=>
                       /\ hsv.px[q][1] \in (0..10) \cup (170..180)
                       /\ hsv.px[q][2] >= 120
                       /\ hsv.px[q][3] >= 70)

\* red's second pair alone set a pixel, and a gray pixel stayed clear
RawMaskIsUnionWitness ==
    /\ pc = "m_morph"
    /\ color = "red"
    /\ \E q \in Pos(hsv.h, hsv.w) :
        /\ hsv.px[q][1] >= 170
        /\ ~Within(hsv.px[q], ranges[1])
        /\ mask.px[q] = U8Max
    /\ \E q \in Pos(hsv.h, hsv.w) : mask.px[q] = 0

\* the block is away from the image border and holds no KernelSize x KernelSize window
Speckle(b) ==
    /\ b.r0 > 1 /\ b.r1 < MaskH /\ b.c0 > 1 /\ b.c1 < MaskW
    /\ (b.r1 - b.r0 + 1 < KernelSize \/ b.c1 - b.c0 + 1 < KernelSize)

\* C20: when the only in-range pixels of the image are a group away from the
\* border that holds no fully in-range 3x3 window, the mask build_mask returns is
\* all zero
SpeckleRemoved ==
    (pc = "m_done" /\ Speckle(probe.block)) =>
        \A q \in Pos(MaskH, MaskW) : mask.px[q] = 0

\* a 2-pixel-wide in-range bar, set in full before the morphology, is gone after it
SpeckleRemovedWitness ==
    /\ pc = "m_done"
    /\ Speckle(probe.block)
    /\ probe.block.c1 = probe.block.c0 + 1
    /\ probe.block.r1 >= probe.block.r0 + 3
    /\ RawMask(hsv, ranges).px[<<probe.block.r0, probe.block.c0>>] = U8Max
    /\ \A q \in Pos(MaskH, MaskW) : mask.px[q] = 0

\* ------------------------------------------------------------ mirroring
\* g is f with its columns in reverse order
Mirrored(f, g) ==
    /\ IsImage(g)
    /\ g.h = f.h /\ g.w = f.w /\ g.ch = f.ch
    /\ \A r \in 1..f.h, c \in 1..f.w : g.px[<<r, c>>] = f.px[<<r, f.w + 1 - c>>]

\* C21: every frame in the background buffer and every frame the streaming loop
\* works on is a camera frame with its columns reversed, flipped once: never a
\* frame as the camera gave it; and it is that frame the HSV image and the mask
\* are made from
MirroredOnce ==
    /\ \A n \in 1..Len(buffer) : \E f \in camera : Mirrored(f, buffer[n])
    /\ IsImage(frame) => \E f \in camera : Mirrored(f, frame)
    /\ pc = "emit" => (hsv = CvtColor(frame) /\ SameSize(mask, frame))

\* a composite of a frame and a background that both come from the camera's
\* asymmetric picture, both with the gray columns on the left
MirroredOnceWitness ==
    /\ pc = "emit"
    /\ Mirrored(CloakFrame, frame)
    /\ Mirrored(CloakFrame, bg)
    /\ frame # CloakFrame
    /\ frame.px[<<1, 1>>] = GrayPx(100)
    /\ bg.px[<<1, 1>>] = GrayPx(100)

\* ------------------------------------------------------------ the streaming loop
\* the read the last emitted frame came from
LastEmitted == emitted[Len(emitted)]

\* C22: streaming is one-in-one-out and in order: a frame is read only at the top
\* of an iteration; the frame in hand has not been emitted before and is the one
\* the HSV image and the mask are made from; what is emitted is the composite of
\* the frame read last; the key is polled only after that frame has been emitted,
\* and the next iteration starts only after it; so the emitted frames come from
\* strictly increasing reads
OneInOneOut ==
    /\ [](\A a \in 1..Len(emitted), b \in 1..Len(emitted) :
              a < b => emitted[a] < emitted[b])
    /\ [](pc \in {"process", "emit"} => (emitted = <<>> \/ LastEmitted < reads))
    /\ [](pc = "emit" => (hsv = CvtColor(frame) /\ mask = BuildMask(hsv, ranges)))
    /\ [](pc = "key" => (emitted # <<>> /\ LastEmitted = reads))
    /\ [][reads' # reads => (pc \in {"capture", "stream"} /\ reads' = reads + 1)]_vars
    /\ [][key' # key => pc \in {"capture", "key"}]_vars
    /\ [][emitted' # emitted =>
            (pc = "emit" /\ emitted' = Append(emitted, reads) /\ shown' = final)]_vars
    /\ [][(pc \in {"emit", "key"} /\ pc' = "stream") =>
            (emitted' # <<>> /\ emitted'[Len(emitted')] = reads')]_vars

\* two iterations after a one-frame capture: reads 2 and 3 went out in that
\* order and the second poll is due
OneInOneOutWitness ==
    /\ pc = "key"
    /\ captures = 1
    /\ bgFrames = 1
    /\ reads = 3
    /\ emitted = <<2, 3>>
    /\ shown = final

\* C23: a failed read in the streaming loop, with or without a window, takes main
\* out of the loop with nothing emitted, shown, masked or composited for that
\* iteration; from then on there is no read, no emission and no capture; and main
\* ends with the camera released
StreamReadFailureEnds ==
    /\ [][(pc = "stream" /\ reads' # reads /\ pc' # "process") =>
            /\ pc' = "finally"
            /\ exit' = "read_failed"
            /\ UNCHANGED << emitted, shown, iter, bg, captures, i, buffer >>]_vars
    /\ [][exit = "read_failed" =>
            UNCHANGED << reads, emitted, shown, iter, bg, captures, i, buffer, exit >>]_vars
    /\ [](exit = "read_failed" => pc \in {"finally", "done"})
    /\ [](exit = "read_failed" => <>(pc = "done" /\ released))

\* the demo loop of the no-GUI script, cut short by a failed read after its
\* first result, has ended with the camera released
StreamReadFailureWitness ==
    /\ pc = "done"
    /\ exit = "read_failed"
    /\ mode = "nogui"
    /\ released
    /\ emitted # <<>>
    /\ Len(emitted) < demoFrames

\* ------------------------------------------------------------ the no-GUI run
\* at most bg_frames + demo_frames reads, at most demo_frames results, and no
\* second background capture
NoGuiBounded ==
    /\ [](reads <= bgFrames + demoFrames)
    /\ [](Len(emitted) <= demoFrames)
    /\ [](~recapture /\ captures <= 1)
    /\ [][Phase(pc) \in {"STREAMING", "TERMINATED"} =>
            Phase(pc') # "BACKGROUND_CAPTURE"]_vars

\* C24: the no-GUI orchestrator always terminates: it reads at most bg_frames +
\* demo_frames frames, emits at most demo_frames results, never re-enters
\* background capture, and reaches its end with the camera released
NoGuiTerminatesReleased ==
    /\ NoGuiBounded
    /\ <>(pc = "done" /\ released)

\* C24, what holds of it: the bounds, and a run that always ends, released when
\* the source had opened
NoGuiTerminates ==
    /\ NoGuiBounded
    /\ <>(pc = "done")
    /\ []((pc = "done" /\ opened) => released)

\* the no-GUI main has returned, before any read, from a source that did not
\* open, and has not released it
NoGuiExitWithoutRelease ==
    /\ mode = "nogui"
    /\ pc = "done"
    /\ exit = "open_failed"
    /\ reads = 0
    /\ ~opened
    /\ ~released

====
